---- MODULE Spec2Model ----
(***************************************************************************)
(* Model of assaultcube_server_reader.py: the byte-level decoders          *)
(* (unpack_helper, getint, getchar, getstring), the server-info query      *)
(* (get_server_info_and_namelist), the player record decoder               *)
(* (read_player_data) and the multi-datagram player-stats query            *)
(* (get_playerstats).                                                      *)
(*                                                                         *)
(* Bytes are the integers 0..255; a bytes object is a sequence of bytes;   *)
(* a Python str is a sequence of code points.  A call that can raise       *)
(* returns [ok |-> FALSE, err |-> <exception>] instead of a value.         *)
(***************************************************************************)
EXTENDS Integers, Sequences, FiniteSets, TLC

VARIABLES pc, data, orig, out, playerlist, client_number_list,
          players_stats, received, attempts, returned, err

vars == <<pc, data, orig, out, playerlist, client_number_list,
          players_stats, received, attempts, returned, err>>

\* ------------------------------------------------------------------------
\* Results of calls
\* ------------------------------------------------------------------------
Ok(v, d) == [ok |-> TRUE, val |-> v, data |-> d]

Raise(e) == [ok |-> FALSE, err |-> e]

NoValue == [status |-> "none"]

\* ------------------------------------------------------------------------
\* struct: sizes and conversions of the format characters the module uses
\* ------------------------------------------------------------------------
Sentinel == -128

sbyte(b) == IF b >= 128 THEN b - 256 ELSE b

calcsize(fmt) ==
  CASE fmt = "b" -> 1
    [] fmt = "c" -> 1
    [] fmt = "bb" -> 2
    [] fmt = "H" -> 2
    [] fmt = "bbb" -> 3
    [] fmt = "BBB" -> 3

\* struct.unpack on exactly calcsize(fmt) bytes.  "H" is the native
\* unsigned short; the hosts the module runs on are little-endian.
unpack(fmt, d) ==
  CASE fmt \in {"b", "bb", "bbb"} -> [i \in 1..Len(d) |-> sbyte(d[i])]
    [] fmt = "BBB" -> d
    [] fmt = "c" -> d
    [] fmt = "H" -> <<d[1] + 256 * d[2]>>

Take(d, n) == SubSeq(d, 1, IF n < Len(d) THEN n ELSE Len(d))

Drop(d, n) == SubSeq(d, n + 1, Len(d))

unpack_helper(fmt, d) ==
  IF Len(Take(d, calcsize(fmt))) # calcsize(fmt)
    THEN Raise("struct.error")
    ELSE [ok |-> TRUE, val |-> unpack(fmt, Take(d, calcsize(fmt))),
          data |-> Drop(d, calcsize(fmt)), removed |-> Take(d, calcsize(fmt))]

\* `return my_int[0], data` / `return my_char[0], data` after an unpack
first_value(unpacked) ==
  IF ~unpacked.ok THEN Raise(unpacked.err)
  ELSE Ok(unpacked.val[1], unpacked.data)

\* getint after its first unpack_helper("b", data)
getint_first(first) ==
  IF ~first.ok THEN Raise(first.err)
  ELSE IF first.val[1] = Sentinel
    THEN first_value(unpack_helper("H", first.data))
    ELSE Ok(first.val[1], first.data)

getint(d) == getint_first(unpack_helper("b", d))

getchar(d) == first_value(unpack_helper("c", d))

\* bytes.decode("utf-8") of one byte: an ASCII byte is its code point, any
\* other single byte is not a complete UTF-8 sequence.
decode_utf8(char) ==
  IF char < 128 THEN [ok |-> TRUE, val |-> <<char>>]
  ELSE Raise("UnicodeDecodeError")

RECURSIVE getstring_loop(_, _)
RECURSIVE getstring_char(_, _)
RECURSIVE getstring_append(_, _, _)
\* `while True: if len(data) == 0: break`
getstring_loop(my_string, d) ==
  IF Len(d) = 0 THEN Ok(my_string, d)
  ELSE getstring_char(my_string, getchar(d))

\* `if char == b"\x00": break`
getstring_char(my_string, char) ==
  IF char.val = 0 THEN Ok(my_string, char.data)
  ELSE getstring_append(my_string, decode_utf8(char.val), char.data)

\* `my_string += char.decode("utf-8")`
getstring_append(my_string, text, d) ==
  IF ~text.ok THEN Raise(text.err)
  ELSE getstring_loop(my_string \o text.val, d)

getstring(d) == getstring_loop(<<>>, d)

\* ------------------------------------------------------------------------
\* The server's encoder of the integer format (putint of protocol.cpp, the
\* counterpart getint's docstring names): one signed byte for -127..127,
\* else the sentinel byte and the value on 16 bits, low byte first.
\* ------------------------------------------------------------------------
putint(v) ==
  IF v \in -127..127 THEN <<v % 256>>
  ELSE <<Sentinel % 256, (v % 65536) % 256, (v % 65536) \div 256>>

\* ------------------------------------------------------------------------
\* Unused variables of a specification keep these values
\* ------------------------------------------------------------------------
Idle == /\ playerlist = <<>>
        /\ client_number_list = <<>>
        /\ players_stats = <<>>
        /\ received = <<>>
        /\ attempts = 0
        /\ returned = NoValue
        /\ err = "none"

IdleUnchanged == UNCHANGED <<playerlist, client_number_list, players_stats,
                             received, attempts, returned, err>>

\* ------------------------------------------------------------------------
\* getint on an encoded value followed by further bytes
\* ------------------------------------------------------------------------
VarintValues == -32768..32767

FollowingBytes == {<<>>, <<0>>, <<128, 7>>}

InitVarint ==
  /\ pc = "start"
  /\ orig \in [value : VarintValues, rest : FollowingBytes]
  /\ data = putint(orig.value) \o orig.rest
  /\ out = NoValue
  /\ Idle

DecodeVarint ==
  /\ pc = "start"
  /\ out' = getint(data)
  /\ pc' = "decoded"
  /\ UNCHANGED <<data, orig>>
  /\ IdleUnchanged

NextVarint == DecodeVarint

SpecVarint == InitVarint /\ [][NextVarint]_vars

\* C9: decoding the encoding of a value yields the value, consuming 1 byte
\* for -127..127 and 3 bytes otherwise, and leaves the following bytes.
C9_RoundTrip ==
  pc = "decoded" =>
    /\ out.ok
    /\ out.val = orig.value
    /\ out.data = orig.rest
    /\ Len(data) - Len(out.data) = IF orig.value \in -127..127 THEN 1 ELSE 3

\* ------------------------------------------------------------------------
\* getstring on arbitrary bytes
\* ------------------------------------------------------------------------
MaxStrLen == 4

StringBytes == {0, 65, 98, 195}

BytesUpTo(alphabet, n) == UNION {[1..k -> alphabet] : k \in 0..n}

InitString ==
  /\ pc = "start"
  /\ data \in BytesUpTo(StringBytes, MaxStrLen)
  /\ orig = NoValue
  /\ out = NoValue
  /\ Idle

DecodeString ==
  /\ pc = "start"
  /\ out' = getstring(data)
  /\ pc' = "decoded"
  /\ UNCHANGED <<data, orig>>
  /\ IdleUnchanged

NextString == DecodeString

SpecString == InitString /\ [][NextString]_vars

HasZero(d) == \E i \in 1..Len(d) : d[i] = 0

FirstZero(d) == CHOOSE i \in 1..Len(d) : d[i] = 0 /\ \A j \in 1..(i - 1) : d[j] # 0

\* C10: getstring never fails; with a zero byte in the input the result is
\* the bytes before the first zero and the remainder the bytes after it,
\* without one the result is the whole input and the remainder is empty.
C10_StringDecoding ==
  pc = "decoded" =>
    /\ out.ok
    /\ IF HasZero(data)
         THEN /\ out.val = SubSeq(data, 1, FirstZero(data) - 1)
              /\ out.data = SubSeq(data, FirstZero(data) + 1, Len(data))
         ELSE /\ out.val = data
              /\ out.data = <<>>

\* ------------------------------------------------------------------------
\* Mode resolution (the mastermode pair of the server-info datagram)
\* ------------------------------------------------------------------------
Str(s) == [str |-> s]

Pair(p) == [pair |-> p]

open_pairs == {<<0, 1>>, <<1, 1>>}

\* faulty variant of private_pairs: (65,1) left out of the table
private_pairs_one == {<<64, 1>>}

private_pairs == {<<64, 1>>, <<65, 1>>}

\* `if mastermode in (...): ... elif mastermode in (...): ...`
classify(mastermode, d) ==
  IF mastermode \in {Pair(p) : p \in open_pairs} THEN Ok(Str("open"), d)
  ELSE IF mastermode \in {Pair(p) : p \in private_pairs}
    THEN Ok(Str("private"), d)
  ELSE Ok(mastermode, d)

\* the pair read after the sentinel is dropped: `mastermode = "match"`
resolve_escaped(escaped) ==
  IF ~escaped.ok THEN Raise(escaped.err)
  ELSE classify(Str("match"), escaped.data)

\* `if mastermode[0] == -128`
resolve_first(first) ==
  IF ~first.ok THEN Raise(first.err)
  ELSE IF first.val[1] = Sentinel
    THEN resolve_escaped(unpack_helper("bb", first.data))
    ELSE classify(Pair(first.val), first.data)

resolve_mastermode(d) == resolve_first(unpack_helper("bb", d))

ByteValues == 0..255

ModeTails == {<<>>, <<7>>, <<0, 1>>, <<64, 1, 0>>, <<128, 9, 65, 0>>}

InitMode ==
  /\ pc = "start"
  /\ orig \in [first : ByteValues, second : ByteValues, tail : ModeTails]
  /\ data = <<orig.first, orig.second>> \o orig.tail
  /\ out = NoValue
  /\ Idle

ResolveMode ==
  /\ pc = "start"
  /\ out' = resolve_mastermode(data)
  /\ pc' = "decoded"
  /\ UNCHANGED <<data, orig>>
  /\ IdleUnchanged

NextMode == ResolveMode

SpecMode == InitMode /\ [][NextMode]_vars

SignedPair == <<sbyte(orig.first), sbyte(orig.second)>>

\* C8: (0,1),(1,1) give open; (64,1),(65,1) give private; a pair led by the
\* sentinel gives match and consumes the 2 bytes after it (4 in total),
\* whatever they are; any other pair is kept as the raw pair (unknown),
\* consuming exactly 2 bytes without failing.
C8_ModeResolution ==
  pc = "decoded" =>
    IF SignedPair[1] = Sentinel
      THEN Len(orig.tail) >= 2 =>
             /\ out.ok
             /\ out.val = Str("match")
             /\ out.data = SubSeq(data, 5, Len(data))
      ELSE /\ out.ok
           /\ out.data = orig.tail
           /\ out.val = IF SignedPair \in {<<0, 1>>, <<1, 1>>} THEN Str("open")
                        ELSE IF SignedPair \in {<<64, 1>>, <<65, 1>>}
                          THEN Str("private")
                        ELSE Pair(SignedPair)

C8_Witness ==
  /\ pc = "decoded"
  /\ SignedPair[1] = Sentinel
  /\ orig.tail = <<64, 1, 0>>
  /\ out.ok
  /\ out.val = Str("match")
  /\ out.data = <<0>>

\* ------------------------------------------------------------------------
\* read_player_data: one player record datagram
\* ------------------------------------------------------------------------
MinRecordLen == 20

EmptyDict == [key \in {} |-> key]

\* A run of decoding statements: each reads one field off the front of the
\* buffer ("int" is getint, "str" is getstring, anything else a struct
\* format for unpack_helper) and hands the rest to the next; a statement
\* after one that raised does not run.
read_field(kind, d) ==
  CASE kind = "int" -> getint(d)
    [] kind = "str" -> getstring(d)
    [] OTHER -> unpack_helper(kind, d)

RECURSIVE read_fields(_, _, _)
RECURSIVE read_fields_next(_, _, _)
read_fields(layout, d, vals) ==
  IF layout = <<>> THEN Ok(vals, d)
  ELSE read_fields_next(Tail(layout), read_field(Head(layout), d), vals)

read_fields_next(layout, field, vals) ==
  IF ~field.ok THEN Raise(field.err)
  ELSE read_fields(layout, field.data, Append(vals, field.val))

\* str() of a non-negative int, as code points
RECURSIVE str(_)
str(n) == IF n < 10 THEN <<48 + n>> ELSE str(n \div 10) \o <<48 + (n % 10)>>

\* ".".join(str(byte) for byte in ip_tuple) + ".0"
join_ip(ip_tuple) ==
  str(ip_tuple[1]) \o <<46>> \o str(ip_tuple[2]) \o <<46>> \o str(ip_tuple[3])
    \o <<46, 48>>

\* faulty variant of too_short: only the 2+3+2 header bytes are required
too_short_headers_only(player_data) == Len(player_data) < 7

\* `if len(player_data) < 20`
too_short(player_data) == Len(player_data) < MinRecordLen

\* extping_code, proto_version, EXT_PLAYERSTATS_RESP_STATS, client_number,
\* ping, name, team, frags, flags, deaths, teamkills, accuracy, health,
\* armour, gun, role, state, ip_tuple, damage, shotdamage
player_data_layout ==
  <<"bb", "bbb", "bb", "int", "int", "str", "str", "int", "int", "int",
    "int", "int", "int", "int", "int", "int", "int", "BBB", "int", "int">>

\* the returned dict
player_dict(read) ==
  IF ~read.ok THEN Raise(read.err)
  ELSE Ok([client_number |-> read.val[4],
           ping |-> read.val[5],
           name |-> read.val[6],
           team |-> read.val[7],
           frags |-> read.val[8],
           flags |-> read.val[9],
           deaths |-> read.val[10],
           teamkills |-> read.val[11],
           accuracy |-> read.val[12],
           health |-> read.val[13],
           armour |-> read.val[14],
           gun |-> read.val[15],
           role |-> read.val[16],
           state |-> read.val[17],
           ip |-> join_ip(read.val[18]),
           damage |-> read.val[19]],
          read.data)

read_player_data(player_data) ==
  IF too_short(player_data) THEN Ok(EmptyDict, player_data)
  ELSE player_dict(read_fields(player_data_layout, player_data, <<>>))

\* The server's encoding of a string and of one player record
\* (extinfo_statsbuf of server.cpp, which read_player_data's docstring
\* names): the fields in wire order after the 2+3+2 header bytes.
putstring(s) == s \o <<0>>

RecordHeader == <<0, 1, 255, 255, 104, 1, 245>>

encode_record(f) ==
  RecordHeader \o putint(f.client_number) \o putint(f.ping)
    \o putstring(f.name) \o putstring(f.team)
    \o putint(f.frags) \o putint(f.flags) \o putint(f.deaths)
    \o putint(f.teamkills) \o putint(f.accuracy) \o putint(f.health)
    \o putint(f.armour) \o putint(f.gun) \o putint(f.role) \o putint(f.state)
    \o f.ip \o putint(f.damage) \o putint(f.shotdamage)

Alice == <<65, 108, 105, 99, 101>>

Bob == <<66, 111, 98>>

NonAscii == <<195, 169>>

CLA == <<67, 76, 65>>

Fields(c, p, n) ==
  [client_number |-> c, ping |-> p, name |-> n, team |-> CLA, frags |-> 3,
   flags |-> 0, deaths |-> 1, teamkills |-> 0, accuracy |-> 42,
   health |-> 100, armour |-> 25, gun |-> 5, role |-> 0, state |-> 0,
   ip |-> <<10, 0, 0>>, damage |-> 120, shotdamage |-> 300]

RecordFields ==
  {Fields(c, p, n) : c \in {2, 5}, p \in {50, 200}, n \in {Alice, Bob, NonAscii, <<>>}}

InitRecordWith(f, datagram) ==
  \E cut \in 0..Len(datagram) :
    /\ orig = [fields |-> f, cut |-> cut, full |-> cut = Len(datagram)]
    /\ data = Take(datagram, cut)

InitRecord ==
  /\ pc = "start"
  /\ \E f \in RecordFields : InitRecordWith(f, encode_record(f))
  /\ out = NoValue
  /\ Idle

DecodeRecord ==
  /\ pc = "start"
  /\ out' = read_player_data(data)
  /\ pc' = "decoded"
  /\ UNCHANGED <<data, orig>>
  /\ IdleUnchanged

NextRecord == DecodeRecord

SpecRecord == InitRecord /\ [][NextRecord]_vars

FieldNames ==
  {"client_number", "ping", "name", "team", "frags", "flags", "deaths",
   "teamkills", "accuracy", "health", "armour", "gun", "role", "state",
   "damage", "shotdamage"}

\* C3: the record decoded from a well-formed datagram carries every encoded
\* field with its encoded value, damage and shot-damage included, and its ip
\* is the three octets followed by a fourth octet 0.
C3_AllFieldsDecoded ==
  (pc = "decoded" /\ orig.full /\ orig.fields.name \in {Alice, Bob}) =>
    /\ out.ok
    /\ \A k \in FieldNames :
         k \in DOMAIN out.val /\ out.val[k] = orig.fields[k]
    /\ out.val.ip = <<49, 48, 46, 48, 46, 48, 46, 48>>

\* C7: a buffer shorter than 20 bytes decodes to the empty record as an
\* ordinary value, with no failure and not one byte of the buffer consumed.
C7_ShortRecord ==
  (pc = "decoded" /\ Len(data) < 20) =>
    /\ out.ok
    /\ out.val = EmptyDict
    /\ out.data = data

C7_Witness ==
  /\ pc = "decoded"
  /\ Len(data) = 19
  /\ out.ok
  /\ out.val = EmptyDict

\* ------------------------------------------------------------------------
\* get_server_info_and_namelist: one datagram, then the player-name loop
\* ------------------------------------------------------------------------
\* The fields before the player names
\* extping_code, proto_version, gamemode, nb_connected_clients,
\* minutes_remaining, server_map, server_description, max_client
server_info_layout == <<"bb", "bbb", "int", "int", "int", "str", "str", "int">>

\* the returned dict, without its playerlist
server_info_dict(vals, mastermode) ==
  IF ~mastermode.ok THEN Raise(mastermode.err)
  ELSE Ok([gamemode |-> vals[3],
           mastermode |-> mastermode.val,
           nb_connected_clients |-> vals[4],
           minutes_remaining |-> vals[5],
           server_map |-> vals[6],
           server_description |-> vals[7],
           max_client |-> vals[8]],
          mastermode.data)

server_info_mode(read) ==
  IF ~read.ok THEN Raise(read.err)
  ELSE server_info_dict(read.val, resolve_mastermode(read.data))

decode_server_info(d) == server_info_mode(read_fields(server_info_layout, d, <<>>))

MaxTail == 3

MaxNames == 4

NameBytes == {0, 65, 195}

InfoFixed == <<1, 1, 255, 255, 104, 5, 2, 128, 44, 1, 97, 99, 0, 0, 16>>

InfoModes == {<<0, 1>>, <<9, 9>>, <<128, 0, 64, 1>>}

InfoDatagrams ==
  {InfoFixed \o m \o t : m \in InfoModes, t \in BytesUpTo(NameBytes, MaxTail)}
    \cup {Take(InfoFixed, k) : k \in {0, 4, 9}}

InitInfo ==
  /\ pc = "query"
  /\ data = <<>>
  /\ orig = NoValue
  /\ out = NoValue
  /\ Idle

InfoDecoded(d, info) ==
  /\ received' = <<d>>
  /\ attempts' = attempts + 1
  /\ IF info.ok
       THEN /\ pc' = "names"
            /\ data' = info.data
            /\ out' = info.val
            /\ err' = err
       ELSE /\ pc' = "raised"
            /\ err' = info.err
            /\ UNCHANGED <<data, out>>

\* recvfrom delivers a datagram; the fields up to the mode pair are decoded
InfoRecv ==
  /\ pc = "query"
  /\ \E d \in InfoDatagrams : InfoDecoded(d, decode_server_info(d))
  /\ UNCHANGED <<orig, playerlist, client_number_list, players_stats, returned>>

\* recvfrom times out
InfoRecvTimeout ==
  /\ pc = "query"
  /\ attempts' = attempts + 1
  /\ pc' = "raised"
  /\ err' = "socket.timeout"
  /\ UNCHANGED <<data, orig, out, playerlist, client_number_list,
                 players_stats, received, returned>>

InfoNameRead(player) ==
  IF player.ok
    THEN /\ playerlist' = Append(playerlist, player.val)
         /\ data' = player.data
         /\ UNCHANGED <<pc, err>>
    ELSE /\ pc' = "raised"
         /\ err' = player.err
         /\ UNCHANGED <<playerlist, data>>

\* one iteration of `while data != b"\x00"`
InfoNameLoop ==
  /\ pc = "names"
  /\ data # <<0>>
  /\ Len(playerlist) < MaxNames
  /\ InfoNameRead(getstring(data))
  /\ UNCHANGED <<orig, out, client_number_list, players_stats, received,
                 attempts, returned>>

\* the loop condition fails and the snapshot is returned
InfoReturn ==
  /\ pc = "names"
  /\ data = <<0>>
  /\ pc' = "done"
  /\ returned' = [status |-> "returned", snapshot |-> out,
                  playerlist |-> playerlist]
  /\ UNCHANGED <<data, orig, out, playerlist, client_number_list,
                 players_stats, received, attempts, err>>

NextInfo == InfoRecv \/ InfoRecvTimeout \/ InfoNameLoop \/ InfoReturn

SpecInfo == InitInfo /\ [][NextInfo]_vars

\* C1: the player-name loop stops as soon as the remaining buffer is the
\* single zero byte or empty, so every datagram yields a snapshot.
C1_NameLoopStops ==
  [][(pc = "names" /\ data \in {<<>>, <<0>>}) => pc' = "done"]_vars

\* ------------------------------------------------------------------------
\* get_playerstats: a header datagram, then one datagram per client number
\* ------------------------------------------------------------------------
RECURSIVE client_number_loop(_, _)
RECURSIVE client_number_append(_, _)
\* `while data_client_number`
client_number_loop(list, d) ==
  IF Len(d) = 0 THEN Ok(list, d)
  ELSE client_number_append(list, getint(d))

client_number_append(list, client_number) ==
  IF ~client_number.ok THEN Raise(client_number.err)
  ELSE client_number_loop(Append(list, client_number.val), client_number.data)

client_numbers_after(read) ==
  IF ~read.ok THEN Raise(read.err)
  ELSE client_number_loop(<<>>, read.data)

\* The header datagram: 2+3+2 bytes, then client numbers to the end
decode_client_numbers(d) ==
  client_numbers_after(read_fields(<<"bb", "bbb", "bb">>, d, <<>>))

\* faulty variant of accept: the record is put in front of the roster
accept_front(stats, dict_player_data) ==
  IF "name" \in DOMAIN dict_player_data /\ dict_player_data.name # <<>>
    THEN <<dict_player_data>> \o stats
    ELSE stats

\* faulty variant of accept: the empty name is not tested
accept_any_name(stats, dict_player_data) ==
  IF "name" \in DOMAIN dict_player_data
    THEN Append(stats, dict_player_data)
    ELSE stats

\* `if "name" in dict_player_data and dict_player_data["name"] != ""`
accept(stats, dict_player_data) ==
  IF "name" \in DOMAIN dict_player_data /\ dict_player_data.name # <<>>
    THEN Append(stats, dict_player_data)
    ELSE stats

\* `return players_stats`
return_value(stats) == [status |-> "returned", players_stats |-> stats]

MaxClients == 2

ClientBytes == {2, 5}

HeaderPrefix == <<0, 1, 255, 255, 104, 1, 246>>

HeaderDatagrams ==
  {HeaderPrefix \o ids : ids \in BytesUpTo(ClientBytes, MaxClients)}
    \cup {HeaderPrefix \o <<128, 44, 1>>,
          HeaderPrefix \o <<2, 128, 44>>,
          <<0, 1, 255, 255, 104, 1, 0, 5>>,
          Take(HeaderPrefix, 6)}

RecAlice == encode_record(Fields(2, 50, Alice))

RecBob == encode_record(Fields(5, 200, Bob))

RecordDatagrams ==
  {RecAlice, RecBob,
   encode_record(Fields(5, 50, <<>>)),
   encode_record(Fields(2, 50, NonAscii)),
   Take(RecAlice, 12),
   Take(RecAlice, 22)}

Init ==
  /\ pc = "await_header"
  /\ data = <<>>
  /\ orig = NoValue
  /\ out = NoValue
  /\ Idle

StatsHeaderDecoded(d, ids) ==
  /\ received' = <<d>>
  /\ attempts' = attempts + 1
  /\ IF ~ids.ok
       THEN /\ pc' = "raised"
            /\ err' = ids.err
            /\ UNCHANGED <<client_number_list, returned>>
       ELSE /\ client_number_list' = ids.val
            /\ err' = err
            /\ IF Len(ids.val) = 0
                 THEN /\ pc' = "done"
                      /\ returned' = return_value(players_stats)
                 ELSE /\ pc' = "collect"
                      /\ returned' = returned

\* recvfrom delivers the header datagram; with no client number in it the
\* loop body never runs and the empty roster is returned
StatsRecvHeader ==
  /\ pc = "await_header"
  /\ \E d \in HeaderDatagrams : StatsHeaderDecoded(d, decode_client_numbers(d))
  /\ UNCHANGED <<data, orig, out, playerlist, players_stats>>

\* recvfrom of the header datagram times out
StatsRecvHeaderTimeout ==
  /\ pc = "await_header"
  /\ attempts' = attempts + 1
  /\ pc' = "raised"
  /\ err' = "socket.timeout"
  /\ UNCHANGED <<data, orig, out, playerlist, client_number_list,
                 players_stats, received, returned>>

StatsRecordDecoded(d, dict_player_data) ==
  /\ received' = Append(received, d)
  /\ attempts' = attempts + 1
  /\ IF ~dict_player_data.ok
       THEN /\ pc' = "raised"
            /\ err' = dict_player_data.err
            /\ UNCHANGED <<players_stats, returned>>
       ELSE /\ players_stats' = accept(players_stats, dict_player_data.val)
            /\ err' = err
            /\ IF Len(received) = Len(client_number_list)
                 THEN /\ pc' = "done"
                      /\ returned' = return_value(players_stats')
                 ELSE /\ pc' = "collect"
                      /\ returned' = returned

\* one iteration of `for client_number in client_number_list`: recv
\* delivers a datagram; after the last iteration the roster is returned
StatsRecvRecord ==
  /\ pc = "collect"
  /\ \E d \in RecordDatagrams : StatsRecordDecoded(d, read_player_data(d))
  /\ UNCHANGED <<data, orig, out, playerlist, client_number_list>>

\* faulty variant of StatsRecvRecordTimeout: the timeout is swallowed and the
\* records received so far are returned
StatsRecvRecordTimeout_partial ==
  /\ pc = "collect"
  /\ attempts' = attempts + 1
  /\ pc' = "done"
  /\ returned' = return_value(players_stats)
  /\ UNCHANGED <<data, orig, out, playerlist, client_number_list,
                 players_stats, received, err>>

\* recv of a record datagram times out
StatsRecvRecordTimeout ==
  /\ pc = "collect"
  /\ attempts' = attempts + 1
  /\ pc' = "raised"
  /\ err' = "socket.timeout"
  /\ UNCHANGED <<data, orig, out, playerlist, client_number_list,
                 players_stats, received, returned>>

Next ==
  \/ StatsRecvHeader
  \/ StatsRecvHeaderTimeout
  \/ StatsRecvRecord
  \/ StatsRecvRecordTimeout

Spec == Init /\ [][Next]_vars

\* ------------------------------------------------------------------------
\* Properties of get_playerstats
\* ------------------------------------------------------------------------
NbRecords == Len(received) - 1

Decoded(i) == read_player_data(received[i + 1])

Usable(r) == DOMAIN r # {} /\ r.name # <<>>

AllValid == \A i \in 1..NbRecords : Decoded(i).ok /\ Usable(Decoded(i).val)

\* C2: a record datagram that cannot be parsed is dropped alone; once the
\* header is decoded only a transport failure aborts the query.
C2_UnparsableRecordDropped ==
  (pc = "raised" /\ Len(received) >= 2) => err = "socket.timeout"

\* C4: a receive timeout, on the header or on any record datagram, aborts
\* the query with the transport error and no roster, partial or not; a
\* roster is returned only after all 1 + n datagrams arrived, and no
\* receive is attempted again after a failed one.
C4_TimeoutAborts ==
  /\ attempts \in {Len(received), Len(received) + 1}
  /\ attempts = Len(received) + 1 <=>
       (pc = "raised" /\ err = "socket.timeout")
  /\ pc = "raised" => returned = NoValue
  /\ pc = "done" =>
       /\ returned.status = "returned"
       /\ NbRecords = Len(client_number_list)

C4_Witness ==
  /\ pc = "raised"
  /\ err = "socket.timeout"
  /\ Len(client_number_list) = 2
  /\ NbRecords = 1
  /\ Len(players_stats) = 1
  /\ returned = NoValue

\* C5: one header datagram, then exactly one datagram per client number,
\* one receive at a time; the i-th datagram is the i-th record whatever
\* client number it carries, and n valid datagrams give n records in
\* arrival order.
C5_ArrivalOrder ==
  /\ pc = "await_header" => attempts = 0
  /\ pc = "collect" =>
       /\ attempts = Len(received)
       /\ NbRecords < Len(client_number_list)
  /\ pc = "done" =>
       /\ attempts = 1 + Len(client_number_list)
       /\ Len(received) = attempts
  /\ (pc \in {"collect", "done"} /\ AllValid) =>
       /\ Len(players_stats) = NbRecords
       /\ \A i \in 1..NbRecords : players_stats[i] = Decoded(i).val
  /\ (pc = "done" /\ AllValid) => returned.players_stats = players_stats

C5_Witness ==
  /\ pc = "done"
  /\ client_number_list = <<2, 5>>
  /\ AllValid
  /\ Len(returned.players_stats) = 2
  /\ returned.players_stats[1].client_number = 5
  /\ returned.players_stats[2].client_number = 2

RECURSIVE VarintsOf(_)
VarintsOf(d) ==
  IF d = <<>> THEN <<>>
  ELSE IF d[1] = 128 THEN <<d[2] + 256 * d[3]>> \o VarintsOf(Drop(d, 3))
  ELSE <<sbyte(d[1])>> \o VarintsOf(Drop(d, 1))

KeptRecords == SelectSeq([i \in 1..NbRecords |-> Decoded(i).val], Usable)

====
